---- MODULE Spec2Model ----
(***************************************************************************)
(* AeroSync: the scheduling core of src/src/utils/core.js and the wrapper  *)
(* of src/src/services/SchedulerService.js as a state machine.             *)
(*                                                                         *)
(* A time string "HH:MM" is the pair <<HH, MM>>.  An optional field that   *)
(* is undefined in JavaScript is <<>>, a present value v is <<v>>.         *)
(* Fuel quantities are fixed point: a penalty is in percent, a fuel        *)
(* efficiency score in hundredths of a percent point.                      *)
(***************************************************************************)
EXTENDS Integers, Sequences, FiniteSets, TLC

VARIABLES
  flights,      \* the flights array handed to the service (mutated in place)
  cargo,        \* the cargo array handed to the service (mutated in place)
  constraints,  \* the declarative constraints
  settings,     \* optimizationPreference, maxBacktrackingIterations
  inFlights,    \* the flights as they were given (never written)
  inCargo,      \* the cargo as it was given (never written)
  domains,      \* ConstraintSatisfactionSolver.domains
  assignment,   \* ConstraintSatisfactionSolver.assignment
  stats,        \* ConstraintSatisfactionSolver.stats
  stack,        \* the active _backtrack frames, innermost last
  solution,     \* what backtrackingSearch returned
  queue,        \* the prioritized cargo still to be placed by the cargo pass
  result,       \* what AirlineScheduler.optimizeSchedule returned
  response,     \* what SchedulerService.optimizeSchedule returned
  pc,           \* the position of the run
  predicates,   \* FirstOrderLogic.predicates, its own properties
  evaluated,    \* the last call of FirstOrderLogic.evaluate and its outcome
  bindings,     \* history: the bindings made since backtrackingSearch was called
  calls,        \* history: the calls of backtrackingSearch on the engine
  satisfied,    \* the last call of a compiled constraint's isSatisfied and its result
  previous      \* history: what the preceding call of backtrackingSearch returned, and its stats

vars == <<flights, cargo, constraints, settings, inFlights, inCargo, domains,
          assignment, stats, stack, solution, queue, result, response, pc,
          predicates, evaluated, bindings, calls, satisfied, previous>>

-----------------------------------------------------------------------------
(* Bounds of the model *)

MaxFlights == 3
MaxConstraints == 2
MaxCargo == 3
BigBudget == 150
MaxCalls == 2
MaxSlots == 2
MaxTime == 4
MaxDuration == 2

-----------------------------------------------------------------------------
(* Values *)

None == <<>>
Some(v) == <<v>>
NoVariable == "<null>"
EmptyAssignment == [id \in {} |-> <<0, 0>>]
Range(seq) == {seq[i] : i \in 1..Len(seq)}
\* this.predicates = {}: no property of its own
NoPredicates == [name \in {} |-> ""]

-----------------------------------------------------------------------------
(* Sorting as Array.prototype.sort does it: stable, by a comparator *)

StableSort(s, Cmp(_, _)) ==
  LET RECURSIVE insert(_, _)
      \* x put into the sorted t, after every element that is not greater
      insert(t, x) ==
        IF t = <<>> THEN <<x>>
        ELSE IF Cmp(t[Len(t)], x) <= 0 THEN Append(t, x)
        ELSE Append(insert(SubSeq(t, 1, Len(t) - 1), x), t[Len(t)])
      RECURSIVE sorted(_)
      sorted(k) == IF k = 0 THEN <<>> ELSE insert(sorted(k - 1), s[k])
  IN sorted(Len(s))

\* [f(s[1]), ..., f(s[n])]
Map(s, f(_)) ==
  LET RECURSIVE upto(_)
      upto(k) == IF k = 0 THEN <<>> ELSE Append(upto(k - 1), f(s[k]))
  IN upto(Len(s))

\* <<1, ..., n>>
Indices(n) ==
  LET RECURSIVE upto(_)
      upto(k) == IF k = 0 THEN <<>> ELSE Append(upto(k - 1), k)
  IN upto(n)

-----------------------------------------------------------------------------
(* Time utilities of AirlineScheduler *)

HoursPerDay == 24
MinutesPerHour == 60

CompareTimeStrings(time1, time2) ==
  IF time1[1] # time2[1] THEN time1[1] - time2[1] ELSE time1[2] - time2[2]

CalculateTimeDifference(time1, time2) ==
  LET totalMinutes1 == time1[1] * MinutesPerHour + time1[2]
      totalMinutes2 == time2[1] * MinutesPerHour + time2[2]
  IN IF totalMinutes2 < totalMinutes1
       THEN HoursPerDay * MinutesPerHour - totalMinutes1 + totalMinutes2
       ELSE totalMinutes2 - totalMinutes1

ConvertToMinutes(timeString) == timeString[1] * MinutesPerHour + timeString[2]

\* a window that ends before it starts is not taken across midnight
IsTimeInWindowSameDay(time, windowStart, windowEnd) ==
  LET t == ConvertToMinutes(time)
      s == ConvertToMinutes(windowStart)
      e == ConvertToMinutes(windowEnd)
  IN t >= s /\ t <= e

IsTimeInWindow(time, windowStart, windowEnd) ==
  LET t == ConvertToMinutes(time)
      s == ConvertToMinutes(windowStart)
      e == ConvertToMinutes(windowEnd)
  IN IF e < s THEN (t >= s \/ t <= e) ELSE (t >= s /\ t <= e)

AddHoursToTime(time, hoursToAdd) ==
  <<(time[1] + hoursToAdd) % HoursPerDay, time[2]>>

-----------------------------------------------------------------------------
(* Domain generation *)

WindowHours == 2
HalfHour == 30

GeneratePossibleDepartureTimes(flight) ==
  LET currentHour == flight.departureTime[1]
      offsets == [k \in 1..(2 * WindowHours + 1) |-> k - 1 - WindowHours]
      slot(i) == LET hour == (currentHour + offsets[(i + 1) \div 2] + HoursPerDay)
                               % HoursPerDay
                 IN IF i % 2 = 1 THEN <<hour, 0>> ELSE <<hour, HalfHour>>
  IN Map(Indices(2 * (2 * WindowHours + 1)), slot)

-----------------------------------------------------------------------------
(* Constraint compiler *)

Undefined == "<undefined>"

\* description.split(" ")[i - 1]
Token(description, i) ==
  IF i <= Len(description) THEN description[i].text ELSE Undefined

\* description.match(/(\d+:\d+)-(\d+:\d+)/): the first window in the text
MatchTimeWindow(description) ==
  LET hits == SelectSeq(description, LAMBDA tok : tok.window # None)
  IN IF hits = <<>> THEN None ELSE hits[1].window

FlightIds(fl) == Map(fl, LAMBDA f : f.id)

GetFlightsByAircraft(fl, aircraftId) ==
  FlightIds(SelectSeq(fl, LAMBDA f : f.aircraft = aircraftId))

GetFlightsByCrew(fl, crewId) ==
  FlightIds(SelectSeq(fl, LAMBDA f : f.crew = crewId))

GetFlightsByAirport(fl, airportCode) ==
  FlightIds(SelectSeq(fl, LAMBDA f : f.origin = airportCode
                                     \/ f.destination = airportCode))

\* assignment[id] is a non-empty string whenever the key is present
Assigned(asg, id) == id \in DOMAIN asg

GetFlightDetailsFromAssignment(asg, flightIds) ==
  Map(SelectSeq(flightIds, LAMBDA id : Assigned(asg, id)),
      LAMBDA id : [id |-> id, time |-> asg[id]])

CompareByTime(a, b) == CompareTimeStrings(a.time, b.time)

\* every consecutive pair of the sorted operations is at least minGap apart
ConsecutiveGapsAtLeast(ops, minGap) ==
  \A i \in 1..(Len(ops) - 1) :
     ~ (CalculateTimeDifference(ops[i].time, ops[i + 1].time) < minGap)

MinTurnaround == 45
FlightHours == 3
DutyHoursPerFlight == 3
MaxDutyTime == 8
MaxOperations == 2
MinSeparation == 15

\* the flights are compared in the order of the flight list, not sorted by time
AircraftSatisfiedUnsorted(fl, description, asg) ==
  LET aircraftId == Token(description, 1)
      relevantFlights ==
          GetFlightDetailsFromAssignment(asg, GetFlightsByAircraft(fl, aircraftId))
  IN ConsecutiveGapsAtLeast(relevantFlights, MinTurnaround)

AircraftSatisfied(fl, description, asg) ==
  LET aircraftId == Token(description, 1)
      relevantFlights == StableSort(
          GetFlightDetailsFromAssignment(asg, GetFlightsByAircraft(fl, aircraftId)),
          CompareByTime)
  IN ConsecutiveGapsAtLeast(relevantFlights, MinTurnaround)

\* every flight of the crew is counted, with or without a time
CrewSatisfiedUnassigned(fl, description, asg) ==
  LET crewId == Token(description, 2)
      totalDutyTime == DutyHoursPerFlight * Len(GetFlightsByCrew(fl, crewId))
  IN totalDutyTime <= MaxDutyTime

CrewSatisfied(fl, description, asg) ==
  LET crewId == Token(description, 2)
      relevantFlights ==
          GetFlightDetailsFromAssignment(asg, GetFlightsByCrew(fl, crewId))
      totalDutyTime == DutyHoursPerFlight * Len(relevantFlights)
  IN totalDutyTime <= MaxDutyTime

AirportSatisfied(fl, description, asg) ==
  LET airportCode == Token(description, 1)
      timeWindow == MatchTimeWindow(description)
      relevantFlights ==
          GetFlightDetailsFromAssignment(asg, GetFlightsByAirport(fl, airportCode))
      flightsInWindow ==
          Len(SelectSeq(relevantFlights,
                LAMBDA f : IsTimeInWindow(f.time, timeWindow[1], timeWindow[2])))
  IN IF timeWindow = None THEN TRUE ELSE flightsInWindow <= MaxOperations

\* this.flights.find(f => f.id === id): the first flight with that id
FindFlight(fl, id) ==
  LET hits == SelectSeq(fl, LAMBDA f : f.id = id)
  IN IF hits = <<>> THEN None ELSE Some(hits[1])

\* the separation is never checked
MinimumTurnaroundSatisfiedAlways(fl, asg) == TRUE

MinimumTurnaroundSatisfied(fl, asg) ==
  LET allFlights == GetFlightDetailsFromAssignment(asg, FlightIds(fl))
      known == SelectSeq(allFlights, LAMBDA f : FindFlight(fl, f.id) # None)
      details(f) == FindFlight(fl, f.id)[1]
      airports == {details(known[i]).origin : i \in 1..Len(known)}
                    \cup {details(known[i]).destination : i \in 1..Len(known)}
      departures(a) == SelectSeq(known, LAMBDA f : details(f).origin = a)
      arrivals(a) ==
          Map(SelectSeq(known, LAMBDA f : details(f).destination = a),
              LAMBDA f : [id |-> f.id, time |-> AddHoursToTime(f.time, FlightHours)])
      operations(a) == StableSort(departures(a) \o arrivals(a), CompareByTime)
  IN \A a \in airports : ConsecutiveGapsAtLeast(operations(a), MinSeparation)

CreateAircraftConstraint(fl, c) ==
  [type |-> "Aircraft", description |-> c.description,
   variables |-> GetFlightsByAircraft(fl, Token(c.description, 1))]

CreateCrewConstraint(fl, c) ==
  [type |-> "Crew", description |-> c.description,
   variables |-> GetFlightsByCrew(fl, Token(c.description, 2))]

CreateAirportConstraint(fl, c) ==
  [type |-> "Airport", description |-> c.description,
   variables |-> GetFlightsByAirport(fl, Token(c.description, 1))]

CreateMinimumTurnaroundTimeConstraint(fl) ==
  [type |-> "Global", description |-> <<>>, variables |-> FlightIds(fl)]

CompiledTypes == {"Aircraft", "Crew", "Airport"}

ConvertConstraintsToCSP(fl, cs) ==
  LET compiled == SelectSeq(cs, LAMBDA c : c.type \in CompiledTypes)
      one(c) == CASE c.type = "Aircraft" -> CreateAircraftConstraint(fl, c)
                  [] c.type = "Crew" -> CreateCrewConstraint(fl, c)
                  [] c.type = "Airport" -> CreateAirportConstraint(fl, c)
  IN Map(compiled, one) \o <<CreateMinimumTurnaroundTimeConstraint(fl)>>

\* constraint.isSatisfied(assignment)
IsSatisfied(fl, c, asg) ==
  CASE c.type = "Aircraft" -> AircraftSatisfied(fl, c.description, asg)
    [] c.type = "Crew" -> CrewSatisfied(fl, c.description, asg)
    [] c.type = "Airport" -> AirportSatisfied(fl, c.description, asg)
    [] c.type = "Global" -> MinimumTurnaroundSatisfied(fl, asg)

Includes(seq, x) == \E i \in 1..Len(seq) : seq[i] = x

-----------------------------------------------------------------------------
(* ConstraintSatisfactionSolver: the engine's pure parts *)

\* {...assignment, [id]: value}
Extend(asg, id, value) ==
  [k \in DOMAIN asg \cup {id} |-> IF k = id THEN value ELSE asg[k]]

\* the binding is left in the assignment
RemoveNothing(asg, id) == asg

\* delete assignment[id]
Remove(asg, id) == [k \in DOMAIN asg \ {id} |-> asg[k]]

IsComplete(asg, variables) == Cardinality(DOMAIN asg) = Len(variables)

\* the constraints are asked about the assignment without the candidate
IsConsistentStale(fl, csp, asg, id, value) ==
  \A i \in 1..Len(csp) :
     Includes(csp[i].variables, id) => IsSatisfied(fl, csp[i], asg)

\* the loop over the constraints ends after the first one
IsConsistentFirst(fl, csp, asg, id, value) ==
  \A i \in 1..Len(csp) :
     (i = 1 /\ Includes(csp[i].variables, id))
        => IsSatisfied(fl, csp[i], Extend(asg, id, value))

IsConsistent(fl, csp, asg, id, value) ==
  \A i \in 1..Len(csp) :
     Includes(csp[i].variables, id) => IsSatisfied(fl, csp[i], Extend(asg, id, value))

GetDomainSize(fl, csp, doms, asg, id) ==
  Len(SelectSeq(doms[id], LAMBDA value : IsConsistent(fl, csp, asg, id, value)))

\* the first unassigned variable is taken, whatever its domain size
SelectUnassignedVariableFirst(fl, csp, doms, asg, variables) ==
  LET open == {i \in 1..Len(variables) : ~ Assigned(asg, variables[i])}
  IN IF open = {} THEN NoVariable
     ELSE variables[CHOOSE i \in open : \A j \in open : i <= j]

SelectUnassignedVariable(fl, csp, doms, asg, variables) ==
  LET open == {i \in 1..Len(variables) : ~ Assigned(asg, variables[i])}
      size == Map(variables, LAMBDA id : IF Assigned(asg, id) THEN 0
                                         ELSE GetDomainSize(fl, csp, doms, asg, id))
      best == CHOOSE i \in open :
                 /\ \A j \in open : size[i] <= size[j]
                 /\ \A j \in open : j < i => size[i] < size[j]
  IN IF open = {} THEN NoVariable ELSE variables[best]

CountConflicts(fl, csp, doms, asg, variables, id, value) ==
  LET others == SelectSeq(variables, LAMBDA o : ~ Assigned(asg, o) /\ o # id)
      hit(o, otherVal) ==
         \E i \in 1..Len(csp) :
            /\ Includes(csp[i].variables, id)
            /\ Includes(csp[i].variables, o)
            /\ ~ IsSatisfied(fl, csp[i], Extend(Extend(asg, id, value), o, otherVal))
      perVar(o) == Len(SelectSeq(doms[o], LAMBDA otherVal : hit(o, otherVal)))
      RECURSIVE total(_)
      total(k) == IF k = 0 THEN 0 ELSE total(k - 1) + perVar(others[k])
  IN total(Len(others))

\* the sort is not stable: values of equal conflicts change places
OrderDomainValuesReversingTies(fl, csp, doms, asg, variables, id) ==
  LET dom == doms[id]
      conflicts == Map(dom, LAMBDA value :
                      CountConflicts(fl, csp, doms, asg, variables, id, value))
      byConflicts(i, j) == IF conflicts[i] = conflicts[j] THEN j - i
                           ELSE conflicts[i] - conflicts[j]
  IN Map(StableSort(Indices(Len(dom)), byConflicts), LAMBDA i : dom[i])

\* the values that rule out the most come first
OrderDomainValuesDescending(fl, csp, doms, asg, variables, id) ==
  LET dom == doms[id]
      conflicts == Map(dom, LAMBDA value :
                      CountConflicts(fl, csp, doms, asg, variables, id, value))
      byConflicts(i, j) == conflicts[j] - conflicts[i]
  IN Map(StableSort(Indices(Len(dom)), byConflicts), LAMBDA i : dom[i])

OrderDomainValues(fl, csp, doms, asg, variables, id) ==
  LET dom == doms[id]
      conflicts == Map(dom, LAMBDA value :
                      CountConflicts(fl, csp, doms, asg, variables, id, value))
      byConflicts(i, j) == conflicts[i] - conflicts[j]
  IN Map(StableSort(Indices(Len(dom)), byConflicts), LAMBDA i : dom[i])

-----------------------------------------------------------------------------
(* HeuristicOptimizer: the pure parts *)

DefaultDistance == 1000

CalculateDistance(origin, destination) ==
  CASE origin = "JFK" /\ destination = "LAX" -> 2475
    [] origin = "LAX" /\ destination = "ORD" -> 1745
    [] origin = "ORD" /\ destination = "JFK" -> 740
    [] OTHER -> DefaultDistance

\* aircraft.includes(type) for the aircraft tags of the model
AircraftIncludes(aircraft, type) ==
  \/ aircraft = type
  \/ aircraft = "B737-800" /\ type = "B737"

BaseConsumptionTypes == <<"B737", "A320", "B777", "A350">>

\* gallons per passenger-mile, in thousandths
BaseConsumption(type) ==
  CASE type = "B737" -> 32 [] type = "A320" -> 31
    [] type = "B777" -> 28 [] type = "A350" -> 27

Passengers == 150

\* in hundredths of a gallon
CalculateBaseFuelConsumption(flight) ==
  LET distance == CalculateDistance(flight.origin, flight.destination)
      found == SelectSeq(BaseConsumptionTypes,
                         LAMBDA type : AircraftIncludes(flight.aircraft, type))
      aircraftType == IF found = <<>> THEN "B737" ELSE found[1]
  IN (distance * BaseConsumption(aircraftType) * Passengers) \div 10

CruisePercent == 95

\* flight.weatherPenalty || 0, in percent
PenaltyOrZero(flight) ==
  IF flight.weatherPenalty = None THEN 0 ELSE flight.weatherPenalty[1]

\* (1 - optimizedFuel / baselineFuel) * 100, in hundredths
FuelEfficiencyScore(flight) == 10000 - CruisePercent * (100 + PenaltyOrZero(flight))

\* baselineFuel - optimizedFuel, in millionths of a gallon
FuelSavings(flight) ==
  CalculateBaseFuelConsumption(flight) * FuelEfficiencyScore(flight)

AdjustForOptimalFuelConsumption(flight) ==
  LET cruised ==
        IF AircraftIncludes(flight.aircraft, "B737")
          THEN [flight EXCEPT !.cruiseAltitude = Some(35000), !.cruiseSpeed = Some(78)]
        ELSE IF AircraftIncludes(flight.aircraft, "A320")
          THEN [flight EXCEPT !.cruiseAltitude = Some(36000), !.cruiseSpeed = Some(76)]
        ELSE IF AircraftIncludes(flight.aircraft, "B777")
          THEN [flight EXCEPT !.cruiseAltitude = Some(40000), !.cruiseSpeed = Some(84)]
        ELSE flight
  IN [cruised EXCEPT !.fuelSavings = Some(FuelSavings(flight)),
                     !.fuelEfficiencyScore = Some(FuelEfficiencyScore(flight))]

\* the weather penalty of the time of day of an hour, in percent
WeatherPenalty(hour) ==
  IF hour >= 5 /\ hour < 12 THEN 5
  ELSE IF hour >= 12 /\ hour < 17 THEN 2
  ELSE IF hour >= 17 /\ hour < 21 THEN 8
  ELSE 3

Adjustments == <<-1, 0, 1, 2>>

\* the suggested shift is applied to the departure time
OptimizeDepartureForWeatherShifting(flight) ==
  LET hour == flight.departureTime[1]
      better == {k \in 1..Len(Adjustments) :
                   WeatherPenalty((hour + Adjustments[k] + HoursPerDay) % HoursPerDay)
                     < WeatherPenalty(hour)}
      shift == IF better = {} THEN 0
               ELSE Adjustments[CHOOSE k \in better : \A m \in better : k <= m]
  IN [flight EXCEPT !.weatherPenalty = Some(WeatherPenalty(hour)),
                    !.departureTime = <<(hour + shift + HoursPerDay) % HoursPerDay,
                                        flight.departureTime[2]>>]

OptimizeDepartureForWeather(flight) ==
  LET hour == flight.departureTime[1]
      own == WeatherPenalty(hour)
      pen(k) == WeatherPenalty((hour + Adjustments[k] + HoursPerDay) % HoursPerDay)
      RECURSIVE scan(_)
      \* <<minPenalty, bestAdjustment>> after the first k adjustments
      scan(k) == IF k = 0 THEN <<own, 0>>
                 ELSE LET before == scan(k - 1)
                      IN IF pen(k) < before[1] THEN <<pen(k), Adjustments[k]>>
                         ELSE before
      best == scan(Len(Adjustments))
      marked == [flight EXCEPT !.weatherPenalty = Some(own)]
  IN IF best[2] # 0
       THEN [marked EXCEPT
               !.suggestedTimeAdjustment = Some(best[2]),
               !.potentialFuelSavings =
                   Some((own - best[1]) * CalculateBaseFuelConsumption(flight))]
       ELSE marked

CompareByDistance(a, b) ==
  CalculateDistance(b.origin, b.destination) - CalculateDistance(a.origin, a.destination)

NullFlight == "<null>"

PriorityOrder(priority) ==
  CASE priority = "High" -> 0 [] priority = "Medium" -> 1 [] priority = "Low" -> 2

CompareCargo(a, b) ==
  IF PriorityOrder(a.priority) # PriorityOrder(b.priority)
    THEN PriorityOrder(a.priority) - PriorityOrder(b.priority)
    ELSE b.weight - a.weight

\* the positions in the cargo array of the items, in the order they are placed
GroupAndPrioritizeCargo(cg) ==
  LET byPriority(i, j) == CompareCargo(cg[i], cg[j])
  IN StableSort(Indices(Len(cg)), byPriority)

\* the payloads are reset and the lists are kept
ClearFlightsPayloadOnly(fl) ==
  [i \in 1..Len(fl) |-> [fl[i] EXCEPT !.currentPayload = 0]]

ClearFlights(fl) ==
  [i \in 1..Len(fl) |-> [fl[i] EXCEPT !.assignedCargo = <<>>, !.currentPayload = 0]]

ClearCargo(cg) ==
  [i \in 1..Len(cg) |-> [cg[i] EXCEPT !.assignedFlight = NullFlight]]

IsRouteSuitable(cargoItem, flight) == TRUE

\* the item is compared with the whole capacity, not with what is left of it
CargoFitsEmpty(cargoItem, flight) == ~ (flight.maxPayload < cargoItem.weight)

CargoFits(cargoItem, flight) ==
  ~ (flight.maxPayload - flight.currentPayload < cargoItem.weight)

\* the score of a flight for an item, times the flight's maxPayload
ScoreTimesCapacity(cargoItem, flight) ==
  (flight.currentPayload + cargoItem.weight) * 10
    + (IF IsRouteSuitable(cargoItem, flight) THEN 5 ELSE 0) * flight.maxPayload
    + (IF \/ cargoItem.type = "Perishable" /\ flight.hasCooledCargo
          \/ cargoItem.type = "Hazardous" /\ flight.canCarryHazardous
         THEN 3 ELSE 0) * flight.maxPayload

\* score(a) > score(b)
ScoreGreater(cargoItem, a, b) ==
  ScoreTimesCapacity(cargoItem, a) * b.maxPayload
    > ScoreTimesCapacity(cargoItem, b) * a.maxPayload

\* among flights of equal score the last one is kept
FindBestFlightForCargoLast(fl, cargoItem) ==
  LET fitting == {i \in 1..Len(fl) : CargoFits(cargoItem, fl[i])}
  IN IF fitting = {} THEN 0
     ELSE CHOOSE i \in fitting :
            /\ \A j \in fitting : ~ ScoreGreater(cargoItem, fl[j], fl[i])
            /\ \A j \in fitting : j > i => ScoreGreater(cargoItem, fl[i], fl[j])

\* the position of the best flight, 0 when no flight can take the item
FindBestFlightForCargo(fl, cargoItem) ==
  LET fitting == {i \in 1..Len(fl) : CargoFits(cargoItem, fl[i])}
  IN IF fitting = {} THEN 0
     ELSE CHOOSE i \in fitting :
            /\ \A j \in fitting : ~ ScoreGreater(cargoItem, fl[j], fl[i])
            /\ \A j \in fitting : j < i => ScoreGreater(cargoItem, fl[i], fl[j])

\* x / y to the nearest integer, halves away from zero
RoundDiv(x, y) ==
  IF x >= 0 THEN (2 * x + y) \div (2 * y) ELSE - ((2 * (- x) + y) \div (2 * y))

\* (currentPayload / maxPayload * 100).toFixed(1), in tenths
Efficiency(flight) == RoundDiv(flight.currentPayload * 1000, flight.maxPayload)

AssignFlight(flight, cargoItem) ==
  [flight EXCEPT !.assignedCargo = Append(@, cargoItem.id),
                 !.currentPayload = @ + cargoItem.weight]

AssignCargoToFlight(fl, cg, k, f) ==
  LET loaded == AssignFlight(fl[f], cg[k])
  IN [flights |-> [fl EXCEPT ![f] = loaded],
      cargo |-> [cg EXCEPT ![k].assignedFlight = fl[f].id,
                           ![k].efficiency = Some(Efficiency(loaded))]]

-----------------------------------------------------------------------------
(* Inputs *)

Flight(id, origin, destination, departureTime, arrivalTime, aircraft, crew, maxPayload, cooled) ==
  [id |-> id, origin |-> origin, destination |-> destination,
   departureTime |-> departureTime, arrivalTime |-> arrivalTime,
   aircraft |-> aircraft, crew |-> crew, maxPayload |-> maxPayload,
   assignedCargo |-> <<>>, currentPayload |-> 0,
   hasCooledCargo |-> cooled, canCarryHazardous |-> FALSE,
   cruiseAltitude |-> None, cruiseSpeed |-> None, fuelSavings |-> None,
   fuelEfficiencyScore |-> None, weatherPenalty |-> None,
   suggestedTimeAdjustment |-> None, potentialFuelSavings |-> None,
   score |-> None]

FlightPool ==
  << Flight("FL001", "JFK", "LAX", <<8, 0>>, <<11, 30>>, "B737", "C1", 5000, FALSE),
     Flight("FL002", "LAX", "JFK", <<8, 8>>, <<11, 38>>, "B737", "C1", 3000, TRUE),
     Flight("FL003", "JFK", "LAX", <<12, 30>>, <<16, 0>>, "A320", "C1", 5000, FALSE),
     Flight("FL004", "LAX", "ORD", <<23, 56>>, <<2, 30>>, "A320", "C2", 6000, FALSE) >>

Cargo(id, weight, priority, type, assignedFlight) ==
  [id |-> id, weight |-> weight, priority |-> priority, type |-> type,
   assignedFlight |-> assignedFlight, efficiency |-> None]

CargoPool ==
  << Cargo("CG001", 2000, "High", "Perishable", "FL001"),
     Cargo("CG002", 4000, "Medium", "Standard", "FL002"),
     Cargo("CG003", 1000, "Low", "Hazardous", NullFlight),
     Cargo("CG004", 3000, "High", "Standard", "FL001") >>

Word(text) == [text |-> text, window |-> None]
Window(text, start, end) == [text |-> text, window |-> <<start, end>>]

ConstraintPool ==
  << [id |-> "CS001", type |-> "Aircraft",
      description |-> <<Word("B737"), Word("requires"), Word("45min"),
                        Word("turnaround"), Word("time")>>],
     [id |-> "CS002", type |-> "Crew",
      description |-> <<Word("Crew"), Word("C1"), Word("can"), Word("only"),
                        Word("fly"), Word("8"), Word("hours")>>],
     [id |-> "CS003", type |-> "Airport",
      description |-> <<Word("JFK"), Word("has"), Word("limited"), Word("slots"),
                        Word("between"), Window("07:00-09:00", <<7, 0>>, <<9, 0>>)>>] >>

\* the order-preserving selections of at most max elements of a pool
Sublists(pool, max) ==
  LET pick(S) == [i \in 1..Cardinality(S) |->
                    pool[CHOOSE k \in S : Cardinality({j \in S : j < k}) = i - 1]]
  IN {pick(S) : S \in {T \in SUBSET (1..Len(pool)) : Cardinality(T) <= max}}

\* a flight record without the aircraft field
NoAircraftFlight ==
  Flight("FL005", "JFK", "ORD", <<15, 0>>, <<17, 30>>, Undefined, "C3", 4000, FALSE)

\* a second flight carrying the id of the pool's first
SameIdFlight == [FlightPool[3] EXCEPT !.id = FlightPool[1].id]

\* the flight lists handed to the service: the selections of the pool in its
\* order, one list in another order, one with a flight that has no aircraft,
\* and one with two flights of one id
FlightLists ==
  Sublists(FlightPool, MaxFlights)
    \cup {<<FlightPool[1], FlightPool[3], FlightPool[2]>>,
          <<FlightPool[1], NoAircraftFlight>>,
          <<FlightPool[1], SameIdFlight>>}

Preferences == {"fuel", "capacity", "balanced", Undefined}
Budgets == {1, 3, BigBudget}

-----------------------------------------------------------------------------
(* The run of SchedulerService.optimizeSchedule *)

Pending == [pending |-> TRUE]

\* the state before optimizeSchedule is called, the cap drawn from budgets
InitWith(budgets) ==
  /\ flights \in FlightLists
  /\ cargo = SubSeq(CargoPool, 1, MaxCargo)
  /\ constraints \in Sublists(ConstraintPool, MaxConstraints)
  /\ settings \in [optimizationPreference : Preferences,
                   maxBacktrackingIterations : budgets]
  /\ inFlights = flights
  /\ inCargo = cargo
  /\ domains = <<>>
  /\ assignment = EmptyAssignment
  /\ stats = [iterations |-> 0, backtracks |-> 0]
  /\ stack = <<>>
  /\ solution = None
  /\ queue = <<>>
  /\ result = Pending
  /\ predicates = NoPredicates
  /\ evaluated = None
  /\ bindings = 0
  /\ calls = 0
  /\ satisfied = None
  /\ previous = None
  /\ response = Pending
  /\ pc = "start"

Init == InitWith(Budgets)

Variables == FlightIds(flights)
Csp == ConvertConstraintsToCSP(flights, constraints)

\* domains[flight.id] = generatePossibleDepartureTimes(flight), in flight order
FormulateDomains(fl) ==
  [id \in {fl[i].id : i \in 1..Len(fl)} |->
     GeneratePossibleDepartureTimes(
        fl[CHOOSE i \in 1..Len(fl) :
             fl[i].id = id /\ \A j \in 1..Len(fl) : fl[j].id = id => j <= i])]

\* optimizeSchedule up to the call of _backtrack: formulateCSP, the engine's
\* construction and the reset at the head of backtrackingSearch
BacktrackingSearch ==
  /\ pc = "start"
  /\ domains' = FormulateDomains(flights)
  /\ assignment' = EmptyAssignment
  /\ stats' = [iterations |-> 0, backtracks |-> 0]
  /\ stack' = <<>>
  /\ bindings' = 0
  /\ calls' = calls + 1
  /\ pc' = "node"
  /\ UNCHANGED <<flights, cargo, constraints, settings, previous, satisfied, predicates, evaluated, inFlights, inCargo,
                 solution, queue, result, response>>

\* the cap is tested one node late
LimitReachedLate(iterations, maxIterations) == iterations > maxIterations + 1

\* the cap is tested one node early
LimitReachedEarly(iterations, maxIterations) == iterations >= maxIterations

LimitReached(iterations, maxIterations) == iterations > maxIterations

\* the head of _backtrack: count, test the limit, test completion, pick the
\* variable and order its values
\* the messages of the TypeErrors: null.id in _backtrack, and
\* undefined.includes in adjustForOptimalFuelConsumption
NullIdMessage == "Cannot read properties of null (reading 'id')"
TypeErrorMessage == "Cannot read properties of undefined (reading 'includes')"

\* one call of _backtrack on an engine whose constraints are csp
BacktrackWith(csp) ==
  /\ pc = "node"
  /\ stats' = [stats EXCEPT !.iterations = @ + 1]
  /\ IF LimitReached(stats'.iterations, settings.maxBacktrackingIterations)
       THEN /\ pc' = "failed"
            /\ UNCHANGED <<domains, stack, solution, result>>
     ELSE IF IsComplete(assignment, Variables)
       THEN /\ solution' = Some(assignment)
            /\ stack' = <<>>
            /\ pc' = "searched"
            /\ UNCHANGED <<domains, result>>
     ELSE LET variable == SelectUnassignedVariable(flights, csp, domains,
                                                   assignment, Variables)
          IN IF variable = NoVariable
               THEN \* this.domains[null.id]: a TypeError
                    /\ pc' = "thrown"
                    /\ result' = [error |-> NullIdMessage]
                    /\ UNCHANGED <<domains, stack, solution>>
               ELSE /\ domains' = [domains EXCEPT ![variable] =
                          OrderDomainValues(flights, csp, domains, assignment,
                                            Variables, variable)]
                    /\ stack' = Append(stack, [variable |-> variable, index |-> 1])
                    /\ pc' = "loop"
                    /\ UNCHANGED <<solution, result>>
  /\ UNCHANGED <<flights, cargo, constraints, settings, previous, satisfied, bindings, calls, predicates, evaluated, inFlights, inCargo,
                 assignment, queue, response>>

\* _backtrack on the engine optimizeSchedule built
Backtrack == BacktrackWith(Csp)

Top == stack[Len(stack)]

\* one turn of the loop over the ordered values: bind a consistent value and
\* recurse, or go on to the next value, on an engine
\* whose constraints are csp
TryValueWith(csp) ==
  /\ pc = "loop"
  /\ Top.index <= Len(domains[Top.variable])
  /\ LET value == domains[Top.variable][Top.index]
     IN IF IsConsistent(flights, csp, assignment, Top.variable, value)
          THEN /\ assignment' = Extend(assignment, Top.variable, value)
               /\ bindings' = bindings + 1
               /\ pc' = "node"
               /\ UNCHANGED stack
          ELSE /\ stack' = [stack EXCEPT ![Len(stack)].index = @ + 1]
               /\ UNCHANGED <<assignment, pc, bindings>>
  /\ UNCHANGED <<flights, cargo, constraints, settings, previous, satisfied, calls, predicates, evaluated, inFlights, inCargo,
                 domains, stats, solution, queue, result, response>>

\* isConsistent writes the candidate into the assignment itself, not a copy
TryValueKeepsTentative ==
  /\ pc = "loop"
  /\ Top.index <= Len(domains[Top.variable])
  /\ LET value == domains[Top.variable][Top.index]
     IN IF IsConsistent(flights, Csp, assignment, Top.variable, value)
          THEN /\ assignment' = Extend(assignment, Top.variable, value)
               /\ bindings' = bindings + 1
               /\ pc' = "node"
               /\ UNCHANGED stack
          ELSE /\ stack' = [stack EXCEPT ![Len(stack)].index = @ + 1]
               /\ assignment' = Extend(assignment, Top.variable, value)
               /\ UNCHANGED <<pc, bindings>>
  /\ UNCHANGED <<flights, cargo, constraints, settings, previous, satisfied, calls, predicates, evaluated, inFlights, inCargo,
                 domains, stats, solution, queue, result, response>>

\* the loop of _backtrack on the engine optimizeSchedule built
TryValue == TryValueWith(Csp)

\* the loop has run out of values: this call returns null
Exhausted ==
  /\ pc = "loop"
  /\ Top.index > Len(domains[Top.variable])
  /\ stack' = SubSeq(stack, 1, Len(stack) - 1)
  /\ pc' = "failed"
  /\ UNCHANGED <<flights, cargo, constraints, settings, previous, satisfied, bindings, calls, predicates, evaluated, inFlights, inCargo,
                 domains, assignment, stats, solution, queue, result, response>>

\* the recursive call returned null: undo the binding and count it
Undo ==
  /\ pc = "failed"
  /\ stack # <<>>
  /\ assignment' = Remove(assignment, Top.variable)
  /\ stats' = [stats EXCEPT !.backtracks = @ + 1]
  /\ stack' = [stack EXCEPT ![Len(stack)].index = @ + 1]
  /\ pc' = "loop"
  /\ UNCHANGED <<flights, cargo, constraints, settings, previous, satisfied, bindings, calls, predicates, evaluated, inFlights, inCargo,
                 domains, solution, queue, result, response>>

\* the outermost call returned null: backtrackingSearch returns null
SearchFails ==
  /\ pc = "failed"
  /\ stack = <<>>
  /\ solution' = None
  /\ pc' = "searched"
  /\ UNCHANGED <<flights, cargo, constraints, settings, previous, satisfied, bindings, calls, predicates, evaluated, inFlights, inCargo,
                 domains, assignment, stats, stack, queue, result, response>>

FailureMessage == "Could not find a valid schedule. Try relaxing constraints."
SuccessMessage == "Schedule successfully optimized"
FallbackMessage == "No valid schedule found"

\* the test of the search's result is missing
NoSolutionUntested(sol) == FALSE

\* if (!solution)
NoSolution(sol) == sol = None

\* optimizeSchedule after the search: the failure result, or on to step 3
SearchReturned ==
  /\ pc = "searched"
  /\ IF NoSolution(solution)
       THEN /\ result' = [success |-> FALSE, message |-> FailureMessage,
                          iterations |-> stats.iterations,
                          backtracks |-> stats.backtracks]
            /\ pc' = "returned"
       ELSE /\ pc' = "apply"
            /\ UNCHANGED result
  /\ UNCHANGED <<flights, cargo, constraints, settings, previous, satisfied, bindings, calls, predicates, evaluated, inFlights, inCargo,
                 domains, assignment, stats, stack, solution, queue, response>>

\* the solved times are not written to the flights
ApplyCSPSolutionDiscarded(fl, sol) == fl

\* the flights after applyCSPSolution(sol): the first flight with each id of
\* the solution gets its time, and its arrival FlightHours later
ApplyCSPSolution(fl, sol) ==
  [i \in 1..Len(fl) |->
     IF /\ fl[i].id \in DOMAIN sol
        /\ \A j \in 1..(i - 1) : fl[j].id # fl[i].id
       THEN [fl[i] EXCEPT !.departureTime = sol[fl[i].id],
                          !.arrivalTime = AddHoursToTime(sol[fl[i].id], FlightHours)]
       ELSE fl[i]]

\* the cargo distribution comes first whatever the preference
FirstPassCargo(preference) == "cargo"

\* the first heuristic of applyHeuristicOptimizations for a preference
FirstPass(preference) == IF preference = "capacity" THEN "cargo" ELSE "fuel"

\* what follows optimizeForFuel in applyHeuristicOptimizations
AfterFuel(preference) == IF preference = "balanced" THEN "cargo" ELSE "score"

\* the bindings a for-in over the solution visits: none for null
ForIn(sol) == IF sol = None THEN EmptyAssignment ELSE sol[1]

ApplySolution ==
  /\ pc = "apply"
  /\ flights' = ApplyCSPSolution(flights, ForIn(solution))
  /\ pc' = FirstPass(settings.optimizationPreference)
  /\ UNCHANGED <<cargo, constraints, settings, previous, satisfied, bindings, calls, predicates, evaluated, inFlights, inCargo, domains,
                 assignment, stats, stack, solution, queue, result, response>>

\* the positions of the flights in the order optimizeForFuel treats them
FuelOrder(fl) ==
  LET byDistance(i, j) == CompareByDistance(fl[i], fl[j])
  IN StableSort(Indices(Len(fl)), byDistance)

HasAircraft(flight) == flight.aircraft # Undefined

\* the flights after optimizeForFuel has treated the first n of the order
FuelTreated(fl, n) ==
  LET order == FuelOrder(fl)
      done == {order[k] : k \in 1..n}
  IN [i \in 1..Len(fl) |->
        IF i \in done
          THEN OptimizeDepartureForWeather(AdjustForOptimalFuelConsumption(fl[i]))
          ELSE fl[i]]

\* how many flights optimizeForFuel treats before flight.aircraft.includes throws
FuelReach(fl) ==
  LET order == FuelOrder(fl)
      bad == {k \in 1..Len(fl) : ~ HasAircraft(fl[order[k]])}
  IN IF bad = {} THEN Len(fl) ELSE (CHOOSE k \in bad : \A m \in bad : k <= m) - 1

OptimizeForFuel ==
  /\ pc = "fuel"
  /\ flights' = FuelTreated(flights, FuelReach(flights))
  /\ pc' = IF FuelReach(flights) < Len(flights) THEN "thrown"
           ELSE AfterFuel(settings.optimizationPreference)
  /\ result' = IF FuelReach(flights) < Len(flights)
                 THEN [error |-> TypeErrorMessage] ELSE result
  /\ UNCHANGED <<cargo, constraints, settings, previous, satisfied, bindings, calls, predicates, evaluated, inFlights, inCargo, domains,
                 assignment, stats, stack, solution, queue, response>>

\* the head of optimizeCargoDistribution: prioritize, then clear
StartCargoDistribution ==
  /\ pc = "cargo"
  /\ queue' = GroupAndPrioritizeCargo(cargo)
  /\ flights' = ClearFlights(flights)
  /\ cargo' = ClearCargo(cargo)
  /\ pc' = "packing"
  /\ UNCHANGED <<constraints, settings, previous, satisfied, bindings, calls, predicates, evaluated, inFlights, inCargo, domains, assignment,
                 stats, stack, solution, result, response>>

\* one turn of the loop of optimizeCargoDistribution
PlaceCargo ==
  /\ pc = "packing"
  /\ queue # <<>>
  /\ LET k == Head(queue)
         f == FindBestFlightForCargo(flights, cargo[k])
     IN IF f # 0
          THEN /\ flights' = AssignCargoToFlight(flights, cargo, k, f).flights
               /\ cargo' = AssignCargoToFlight(flights, cargo, k, f).cargo
          ELSE UNCHANGED <<flights, cargo>>
  /\ queue' = Tail(queue)
  /\ UNCHANGED <<constraints, settings, previous, satisfied, bindings, calls, predicates, evaluated, inFlights, inCargo, domains, assignment,
                 stats, stack, solution, result, response, pc>>

\* optimizeCargoDistribution returns
CargoDistributed ==
  /\ pc = "packing"
  /\ queue = <<>>
  /\ pc' = "score"
  /\ UNCHANGED <<flights, cargo, constraints, settings, previous, satisfied, bindings, calls, predicates, evaluated, inFlights, inCargo,
                 domains, assignment, stats, stack, solution, queue, result,
                 response>>

\* the weights of the composite score, in tenths
WeightFuel(preference) ==
  CASE preference = "fuel" -> 8 [] preference = "capacity" -> 2 [] OTHER -> 5

WeightCapacity(preference) ==
  CASE preference = "fuel" -> 2 [] preference = "capacity" -> 8 [] OTHER -> 5

DefaultScore == 50

\* flight.fuelEfficiencyScore || 50, in hundredths
FuelScore(flight) ==
  IF flight.fuelEfficiencyScore = None \/ flight.fuelEfficiencyScore = Some(0)
    THEN DefaultScore * 100
    ELSE flight.fuelEfficiencyScore[1]

\* (fuelScore * weightFuel + capacityScore * weightCapacity).toFixed(1), in tenths
CompositeScore(flight, preference) ==
  IF flight.currentPayload # 0
    THEN RoundDiv(WeightFuel(preference) * FuelScore(flight) * flight.maxPayload
                    + WeightCapacity(preference) * 10000 * flight.currentPayload,
                  100 * flight.maxPayload)
    ELSE RoundDiv(WeightFuel(preference) * FuelScore(flight)
                    + WeightCapacity(preference) * DefaultScore * 100,
                  100)

\* the scoring loop of applyHeuristicOptimizations and the success result
ScoreAndReturn ==
  /\ pc = "score"
  /\ flights' = [i \in 1..Len(flights) |->
                   [flights[i] EXCEPT !.score =
                      Some(CompositeScore(flights[i], settings.optimizationPreference))]]
  /\ result' = [success |-> TRUE, message |-> SuccessMessage,
                iterations |-> stats.iterations, backtracks |-> stats.backtracks,
                flights |-> flights', cargo |-> cargo]
  /\ pc' = "returned"
  /\ UNCHANGED <<cargo, constraints, settings, previous, satisfied, bindings, calls, predicates, evaluated, inFlights, inCargo, domains,
                 assignment, stats, stack, solution, queue, response>>

\* SchedulerService.optimizeSchedule after the scheduler returned
ServiceReturns ==
  /\ pc = "returned"
  /\ response' = IF ~ result.success
                   THEN [success |-> FALSE,
                         message |-> IF result.message = "" THEN FallbackMessage
                                     ELSE result.message,
                         flights |-> flights, cargo |-> cargo]
                   ELSE result
  /\ pc' = "done"
  /\ UNCHANGED <<flights, cargo, constraints, settings, previous, satisfied, bindings, calls, predicates, evaluated, inFlights, inCargo,
                 domains, assignment, stats, stack, solution, queue, result>>

\* the catch block of SchedulerService.optimizeSchedule
ServiceCatches ==
  /\ pc = "thrown"
  /\ response' = [success |-> FALSE, message |-> result.error,
                  flights |-> flights, cargo |-> cargo]
  /\ pc' = "done"
  /\ UNCHANGED <<flights, cargo, constraints, settings, previous, satisfied, bindings, calls, predicates, evaluated, inFlights, inCargo,
                 domains, assignment, stats, stack, solution, queue, result>>

Next ==
  \/ BacktrackingSearch
  \/ Backtrack
  \/ TryValue
  \/ Exhausted
  \/ Undo
  \/ SearchFails
  \/ SearchReturned
  \/ ApplySolution
  \/ OptimizeForFuel
  \/ StartCargoDistribution
  \/ PlaceCargo
  \/ CargoDistributed
  \/ ScoreAndReturn
  \/ ServiceReturns
  \/ ServiceCatches

Spec == Init /\ [][Next]_vars

-----------------------------------------------------------------------------
(* HeuristicOptimizer.optimizeCargoDistribution called on a schedule of its   *)
(* own, whose flights may carry the lists and payloads of an earlier          *)
(* assignment                                                                 *)

\* the flight loaded with the cargo of the pool that names it
Preloaded(flight) ==
  LET mine == SelectSeq(CargoPool, LAMBDA c : c.assignedFlight = flight.id)
      RECURSIVE weight(_)
      weight(k) == IF k = 0 THEN 0 ELSE weight(k - 1) + mine[k].weight
  IN [flight EXCEPT !.assignedCargo = Map(mine, LAMBDA c : c.id),
                    !.currentPayload = weight(Len(mine))]

InitCargo ==
  /\ \E fl \in Sublists(FlightPool, MaxFlights) :
        flights \in {fl, Map(fl, Preloaded)}
  /\ Len(flights) >= 1
  /\ cargo \in Sublists(CargoPool, MaxCargo)
  /\ constraints = <<>>
  /\ settings = [optimizationPreference |-> "capacity",
                 maxBacktrackingIterations |-> BigBudget]
  /\ inFlights = flights
  /\ inCargo = cargo
  /\ domains = <<>>
  /\ assignment = EmptyAssignment
  /\ stats = [iterations |-> 0, backtracks |-> 0]
  /\ stack = <<>>
  /\ solution = None
  /\ queue = <<>>
  /\ result = Pending
  /\ predicates = NoPredicates
  /\ evaluated = None
  /\ bindings = 0
  /\ calls = 0
  /\ satisfied = None
  /\ previous = None
  /\ response = Pending
  /\ pc = "cargo"

NextCargo ==
  \/ StartCargoDistribution
  \/ PlaceCargo
  \/ CargoDistributed

SpecCargo == InitCargo /\ [][NextCargo]_vars

-----------------------------------------------------------------------------
(* FirstOrderLogic: the predicate registry.  An evaluator is known by its    *)
(* name; the three of initializeAirlinePredicates are computed as their code *)
(* computes them.                                                            *)

\* properties every object literal inherits from Object.prototype
ObjectPrototype == {"toString"}

\* this.predicates[predicateName]: an own property, else an inherited one,
\* else undefined
Lookup(preds, predicateName) ==
  IF predicateName \in DOMAIN preds THEN preds[predicateName]
  ELSE IF predicateName \in ObjectPrototype THEN "Object.prototype." \o predicateName
  ELSE Undefined

HasCapacityFor(aircraft, cargoItem) == aircraft.maxPayload >= cargoItem.weight

HasAvailableSlot(airport, time, duration) ==
  ~ \E n \in 1..Len(airport.slots) :
       LET slot == airport.slots[n]
       IN /\ slot.time <= time
          /\ time < slot.time + slot.duration
          /\ slot.isOccupied

\* 60 * 60 * 1000
MillisecondsPerHour == 3600000

\* (flightStart - lastDuty) / (60 * 60 * 1000) >= requiredRest
HasRestedCrew(crew, flight) ==
  flight.departureTime - crew.lastDutyEnd >= crew.requiredRestHours * MillisecondsPerHour

\* this.predicates[predicateName](...args)
Apply(evaluator, args) ==
  CASE evaluator = "hasCapacityFor" -> HasCapacityFor(args[1], args[2])
    [] evaluator = "hasAvailableSlot" -> HasAvailableSlot(args[1], args[2], args[3])
    [] evaluator = "hasRestedCrew" -> HasRestedCrew(args[1], args[2])
    [] evaluator = "always" -> TRUE
    [] evaluator = "never" -> FALSE
    [] evaluator = "Object.prototype.toString" -> "[object Object]"

SlotPool ==
  << [time |-> 1, duration |-> 2, isOccupied |-> TRUE],
     [time |-> 2, duration |-> 1, isOccupied |-> FALSE],
     [time |-> 3, duration |-> 1, isOccupied |-> TRUE] >>

\* the arguments a caller hands to an evaluator
Arguments(evaluator) ==
  CASE evaluator = "hasCapacityFor" ->
         {<<[maxPayload |-> m], [weight |-> w]>> : m \in {3000, 5000}, w \in {2000, 4000}}
    [] evaluator = "hasAvailableSlot" ->
         {<<[slots |-> sl], t, d>> :
            sl \in Sublists(SlotPool, MaxSlots), t \in 0..MaxTime, d \in 1..MaxDuration}
    [] evaluator = "hasRestedCrew" ->
         {<<[lastDutyEnd |-> 0, requiredRestHours |-> 8], [departureTime |-> t]>> :
            t \in {8 * MillisecondsPerHour - 1, 8 * MillisecondsPerHour}}
    [] OTHER -> {<<>>}

PredicateNames ==
  {"hasCapacityFor", "hasAvailableSlot", "hasRestedCrew", "isOpen", "toString"}

AuthoredEvaluators == {"always", "never"}

\* the registry with predicates[name] = evaluator
Define(preds, name, evaluator) ==
  [n \in DOMAIN preds \cup {name} |-> IF n = name THEN evaluator ELSE preds[n]]

DefinePredicate ==
  /\ pc = "logic"
  /\ \E name \in {"hasAvailableSlot", "isOpen", "toString"} :
       \E evaluator \in AuthoredEvaluators :
          predicates' = Define(predicates, name, evaluator)
  /\ UNCHANGED <<flights, cargo, constraints, settings, previous, satisfied, bindings, calls, inFlights, inCargo,
                 domains, assignment, stats, stack, solution, queue, result,
                 response, pc, evaluated>>

InitializeAirlinePredicates ==
  /\ pc = "logic"
  /\ predicates' = Define(Define(Define(predicates,
                                        "hasCapacityFor", "hasCapacityFor"),
                                 "hasAvailableSlot", "hasAvailableSlot"),
                          "hasRestedCrew", "hasRestedCrew")
  /\ UNCHANGED <<flights, cargo, constraints, settings, previous, satisfied, bindings, calls, inFlights, inCargo,
                 domains, assignment, stats, stack, solution, queue, result,
                 response, pc, evaluated>>

\* evaluate(predicateName, ...args): the call and what came of it
Evaluate ==
  /\ pc = "logic"
  /\ \E predicateName \in PredicateNames :
       LET evaluator == Lookup(predicates, predicateName)
       IN \E args \in Arguments(evaluator) :
            evaluated' =
              IF evaluator = Undefined
                THEN Some([name |-> predicateName, args |-> args, threw |-> TRUE,
                           evaluator |-> evaluator,
                           value |-> "Unknown predicate: " \o predicateName])
                ELSE Some([name |-> predicateName, args |-> args, threw |-> FALSE,
                           evaluator |-> evaluator,
                           value |-> Apply(evaluator, args)])
  /\ UNCHANGED <<flights, cargo, constraints, settings, previous, satisfied, bindings, calls, inFlights, inCargo,
                 domains, assignment, stats, stack, solution, queue, result,
                 response, pc, predicates>>

InitLogic ==
  /\ flights = <<>>
  /\ cargo = <<>>
  /\ constraints = <<>>
  /\ settings = [optimizationPreference |-> Undefined,
                 maxBacktrackingIterations |-> BigBudget]
  /\ inFlights = flights
  /\ inCargo = cargo
  /\ domains = <<>>
  /\ assignment = EmptyAssignment
  /\ stats = [iterations |-> 0, backtracks |-> 0]
  /\ stack = <<>>
  /\ solution = None
  /\ queue = <<>>
  /\ result = Pending
  /\ bindings = 0
  /\ calls = 0
  /\ satisfied = None
  /\ previous = None
  /\ response = Pending
  /\ predicates = NoPredicates
  /\ evaluated = None
  /\ pc = "logic"

NextLogic ==
  \/ DefinePredicate
  \/ InitializeAirlinePredicates
  \/ Evaluate

SpecLogic == InitLogic /\ [][NextLogic]_vars

-----------------------------------------------------------------------------
(* The engine that formulateCSP built, searched more than once *)

\* backtrackingSearch called again on the engine: the counters and the
\* assignment are reset, the domains stay in the order the sorts left them
SearchAgain ==
  /\ pc = "searched"
  /\ calls < MaxCalls
  /\ assignment' = EmptyAssignment
  /\ stats' = [iterations |-> 0, backtracks |-> 0]
  /\ stack' = <<>>
  /\ bindings' = 0
  /\ calls' = calls + 1
  /\ previous' = Some([solution |-> solution, stats |-> stats])
  /\ pc' = "node"
  /\ UNCHANGED <<flights, cargo, constraints, settings, satisfied, predicates, evaluated,
                 inFlights, inCargo, domains, solution, queue, result, response>>

\* the caps of the engine's callers: those of the service, and two that are
\* passed in the middle of a search that has backtracked
EngineBudgets == Budgets \cup {14, 25}

InitEngine ==
  /\ InitWith(EngineBudgets)
  /\ settings.optimizationPreference = Undefined

NextEngine ==
  \/ BacktrackingSearch
  \/ Backtrack
  \/ TryValue
  \/ Exhausted
  \/ Undo
  \/ SearchFails
  \/ SearchAgain

SpecEngine == InitEngine /\ [][NextEngine]_vars

-----------------------------------------------------------------------------
(* A ConstraintSatisfactionSolver constructed by a caller of the exported     *)
(* class on the flights' ids, the generated domains and the compiled declared *)
(* constraints alone, without the global separation constraint                *)

DeclaredCsp == SubSeq(Csp, 1, Len(Csp) - 1)

SolverBacktrack == BacktrackWith(DeclaredCsp)

SolverTryValue == TryValueWith(DeclaredCsp)

NextSolver ==
  \/ BacktrackingSearch
  \/ SolverBacktrack
  \/ SolverTryValue
  \/ Exhausted
  \/ Undo
  \/ SearchFails

SpecSolver == InitEngine /\ [][NextSolver]_vars

-----------------------------------------------------------------------------
(* The compiled constraints asked about assignments of the caller's choice *)

TimePool ==
  << <<0, 0>>, <<1, 0>>, <<2, 0>>, <<8, 0>>, <<8, 40>>, <<8, 45>>, <<12, 0>>,
     <<22, 0>>, <<23, 30>> >>

\* the declarative constraints the predicates are compiled from
DescriptionPool ==
  ConstraintPool \o
  << [id |-> "CS004", type |-> "Airport",
      description |-> <<Word("JFK"), Word("closes"), Word("between"),
                        Window("22:00-02:00", <<22, 0>>, <<2, 0>>)>>],
     [id |-> "CS005", type |-> "Airport",
      description |-> <<Word("JFK"), Word("has"), Word("limited"), Word("slots")>>],
     [id |-> "CS006", type |-> "Aircraft",
      description |-> <<Word("A320"), Word("requires"), Word("45min"),
                        Word("turnaround"), Word("time")>>] >>

\* the assignments of times of the pool to some of the flights
PartialAssignments(fl) ==
  UNION {[S -> Range(TimePool)] : S \in SUBSET Range(FlightIds(fl))}

\* constraint.isSatisfied(assignment) for one of the compiled constraints
IsSatisfiedCalled ==
  /\ pc = "predicate"
  /\ \E k \in 1..Len(Csp) :
        satisfied' = Some([type |-> Csp[k].type,
                           description |-> Csp[k].description,
                           variables |-> Csp[k].variables,
                           value |-> IsSatisfied(flights, Csp[k], assignment)])
  /\ pc' = "asked"
  /\ UNCHANGED <<flights, cargo, constraints, settings, previous, inFlights, inCargo,
                 domains, assignment, stats, stack, solution, queue, result,
                 response, predicates, evaluated, bindings, calls>>

InitPredicate ==
  /\ flights = SubSeq(FlightPool, 1, MaxFlights)
  /\ cargo = <<>>
  /\ \E n \in 1..Len(DescriptionPool) : constraints = <<DescriptionPool[n]>>
  /\ settings = [optimizationPreference |-> Undefined,
                 maxBacktrackingIterations |-> BigBudget]
  /\ inFlights = flights
  /\ inCargo = cargo
  /\ domains = <<>>
  /\ assignment \in PartialAssignments(flights)
  /\ stats = [iterations |-> 0, backtracks |-> 0]
  /\ stack = <<>>
  /\ solution = None
  /\ queue = <<>>
  /\ result = Pending
  /\ response = Pending
  /\ predicates = NoPredicates
  /\ evaluated = None
  /\ bindings = 0
  /\ calls = 0
  /\ satisfied = None
  /\ previous = None
  /\ pc = "predicate"

NextPredicate == IsSatisfiedCalled

SpecPredicate == InitPredicate /\ [][NextPredicate]_vars

-----------------------------------------------------------------------------
(* Properties *)

InputIds == {inFlights[i].id : i \in 1..Len(inFlights)}
InputCsp == ConvertConstraintsToCSP(inFlights, constraints)
Searching == pc \in {"start", "node", "loop", "failed"}
MinutesOfDay(t) == 60 * t[1] + t[2]
Apart(t1, t2) == IF MinutesOfDay(t1) >= MinutesOfDay(t2)
                   THEN MinutesOfDay(t1) - MinutesOfDay(t2)
                   ELSE MinutesOfDay(t2) - MinutesOfDay(t1)

\* C1: what backtrackingSearch returns is null or an assignment that binds
\* every variable to a value of its own domain and satisfies every constraint.
C1_NullOrCompleteConsistent ==
  solution # None =>
    LET sol == solution[1]
    IN /\ DOMAIN sol = InputIds
       /\ \A id \in InputIds : sol[id] \in Range(domains[id])
       /\ \A k \in 1..Len(InputCsp) : IsSatisfied(inFlights, InputCsp[k], sol)

\* a solution in which a constraint kept a flight off its first candidate
C1_Witness ==
  /\ solution # None
  /\ Len(inFlights) >= 2
  /\ Len(constraints) >= 1
  /\ \E i \in 1..Len(inFlights) :
        solution[1][inFlights[i].id] # GeneratePossibleDepartureTimes(inFlights[i])[1]

\* C2: once the iteration count has exceeded maxIterations the search returns
\* null; a returned solution was completed within the budget.
C2_OverBudgetReturnsNull ==
  /\ solution # None => stats.iterations <= settings.maxBacktrackingIterations
  /\ (~ Searching /\ stats.iterations > settings.maxBacktrackingIterations)
       => solution = None

\* a run over budget that returned null although a satisfying assignment exists
C2_Witness ==
  /\ pc = "searched"
  /\ solution = None
  /\ stats.iterations > settings.maxBacktrackingIterations
  /\ Len(inFlights) = 2
  /\ \E a \in Range(domains[inFlights[1].id]), b \in Range(domains[inFlights[2].id]) :
        LET full == Extend(Extend(EmptyAssignment, inFlights[1].id, a),
                           inFlights[2].id, b)
        IN \A k \in 1..Len(InputCsp) : IsSatisfied(inFlights, InputCsp[k], full)

\* C3: when the search found no solution, optimizeSchedule ends in FAILURE
\* and every field of every flight and cargo item is as it was given.
C3_FailureLeavesInputs ==
  (pc \in {"returned", "done"} /\ "success" \in DOMAIN result /\ solution = None)
    => /\ ~ result.success
       /\ flights = inFlights
       /\ cargo = inCargo

C3_Witness ==
  /\ pc = "done"
  /\ solution = None
  /\ ~ result.success
  /\ stats.backtracks > 0
  /\ Len(inFlights) >= 2

ResultFields == {"success", "message", "iterations", "backtracks", "flights", "cargo"}

\* C4: the failure result of AirlineScheduler.optimizeSchedule and the one of
\* SchedulerService.optimizeSchedule both carry success = false, a message,
\* the iterations and backtracks counters and the flights and the cargo.
C4_FailureResultHasAll ==
  (pc = "done" /\ ~ response.success)
    => /\ ResultFields \subseteq DOMAIN result
       /\ ResultFields \subseteq DOMAIN response

\* AirlineScheduler.optimizeSchedule has returned a result, not thrown
Returned == pc \in {"returned", "done"} /\ "success" \in DOMAIN result

Applied == pc \in {"fuel", "cargo", "packing", "score", "returned", "done"}
                /\ solution # None

\* C5: from the moment the solution is applied, through the heuristic pass and
\* in the SUCCESS result, every flight departs at the time the solver chose,
\* which is one of the flight's generated candidates, arrives 3 hours later
\* modulo 24 with the minutes kept, and the departure times satisfy every
\* compiled constraint.
C5_SuccessCarriesSolution ==
  Applied =>
    LET departures == [id \in InputIds |->
                         (CHOOSE f \in Range(flights) : f.id = id).departureTime]
    IN /\ \A i \in 1..Len(flights) :
            /\ flights[i].departureTime = solution[1][flights[i].id]
            /\ flights[i].departureTime
                 \in Range(GeneratePossibleDepartureTimes(inFlights[i]))
            /\ flights[i].arrivalTime
                 = <<(flights[i].departureTime[1] + 3) % 24, flights[i].departureTime[2]>>
       /\ \A k \in 1..Len(InputCsp) : IsSatisfied(inFlights, InputCsp[k], departures)
       /\ Returned => result.success /\ result.flights = flights

\* a success with an arrival past midnight and a flight the weather
\* heuristic would rather have at another hour
C5_Witness ==
  /\ pc = "done"
  /\ response.success
  /\ \E i \in 1..Len(flights) :
        /\ flights[i].arrivalTime[1] < flights[i].departureTime[1]
        /\ flights[i].departureTime # inFlights[i].departureTime
  /\ \E i \in 1..Len(flights) : flights[i].suggestedTimeAdjustment # None

\* C6: the generated domain of every flight is the 9 times that lie -2h, -1.5h,
\* ..., +2h from the flight's original departure time.
C6_NineCandidates ==
  (pc = "node" /\ stats.iterations = 0) =>
    \A i \in 1..Len(inFlights) :
       LET dom == domains[inFlights[i].id]
           origin == MinutesOfDay(inFlights[i].departureTime)
       IN /\ Len(dom) = 9
          /\ \A k \in 1..Len(dom) :
                MinutesOfDay(dom[k]) = (origin + 30 * (k - 5) + 1440) % 1440

\* the case of C7: three flights, one Aircraft constraint, two of the flights
\* use the aircraft it names and were 8 minutes apart, a large budget
C7_Pair ==
  {p \in (1..Len(inFlights)) \X (1..Len(inFlights)) :
     /\ p[1] < p[2]
     /\ inFlights[p[1]].aircraft = Token(constraints[1].description, 1)
     /\ inFlights[p[2]].aircraft = Token(constraints[1].description, 1)
     /\ Apart(inFlights[p[1]].departureTime, inFlights[p[2]].departureTime) = 8}

C7_Case ==
  /\ Len(inFlights) = 3
  /\ Len(constraints) = 1
  /\ constraints[1].type = "Aircraft"
  /\ settings.maxBacktrackingIterations = BigBudget
  /\ C7_Pair # {}

\* C7: in that case optimizeSchedule succeeds, the two flights end at least 45
\* minutes apart and the third flight departs at one of its own candidates.
C7_EndToEnd ==
  (pc = "done" /\ C7_Case) =>
    /\ response.success
    /\ \A p \in C7_Pair :
          /\ Apart(response.flights[p[1]].departureTime,
                   response.flights[p[2]].departureTime) >= 45
          /\ \A k \in (1..3) \ {p[1], p[2]} :
                response.flights[k].departureTime
                  \in Range(GeneratePossibleDepartureTimes(inFlights[k]))

C7_Witness == pc = "done" /\ C7_Case /\ response.success

C8_FirstChoices ==
  LET first == SelectUnassignedVariable(inFlights, InputCsp, domains,
                                        EmptyAssignment, FlightIds(inFlights))
  IN {v \in Range(domains[first]) :
        IsConsistent(inFlights, InputCsp, EmptyAssignment, first, v)}

InPass == pc \in {"packing", "score"}

\* how often a cargo id stands in the list of a flight
Occurrences(flight, id) ==
  Cardinality({n \in 1..Len(flight.assignedCargo) : flight.assignedCargo[n] = id})

\* C9: from the clearing on and when the pass has ended, a cargo id stands at
\* most once in all the lists together, an item's assignedFlight is the flight
\* whose list holds it and null when none does, the lists hold nothing but
\* items the pass has placed, and an item not yet placed is unassigned.
C9_ExclusiveAssignment ==
  InPass =>
    /\ \A k \in 1..Len(cargo) :
          LET holders == {i \in 1..Len(flights) :
                            Occurrences(flights[i], cargo[k].id) > 0}
          IN /\ Cardinality(holders) <= 1
             /\ \A i \in holders :
                   /\ Occurrences(flights[i], cargo[k].id) = 1
                   /\ cargo[k].assignedFlight = flights[i].id
             /\ holders = {} => cargo[k].assignedFlight = NullFlight
             /\ k \in Range(queue) => holders = {}
    /\ \A i \in 1..Len(flights) :
          Range(flights[i].assignedCargo) \subseteq {cargo[k].id : k \in 1..Len(cargo)}

\* a pass that ended with an item on a flight other than the one it named
\* before, on flights that came with lists of their own
C9_Witness ==
  /\ pc = "score"
  /\ \E i \in 1..Len(inFlights) : inFlights[i].assignedCargo # <<>>
  /\ \E k \in 1..Len(cargo) :
        /\ inCargo[k].assignedFlight # NullFlight
        /\ cargo[k].assignedFlight # NullFlight
        /\ cargo[k].assignedFlight # inCargo[k].assignedFlight

\* the weight of the items of a list
ListWeight(list) ==
  LET RECURSIVE upto(_)
      upto(n) == IF n = 0 THEN 0
                 ELSE upto(n - 1)
                        + (CHOOSE c \in Range(cargo) : c.id = list[n]).weight
  IN upto(Len(list))

\* C10: after the clearing, after every placement and when the pass has
\* ended, the currentPayload of every flight is the weight of the items of
\* its list and is at most its maxPayload.
C10_PayloadIsListWeight ==
  InPass =>
    \A i \in 1..Len(flights) :
       /\ flights[i].currentPayload = ListWeight(flights[i].assignedCargo)
       /\ flights[i].currentPayload <= flights[i].maxPayload

\* a pass that filled a flight with two items and left an item behind
C10_Witness ==
  /\ pc = "score"
  /\ \E i \in 1..Len(flights) : Len(flights[i].assignedCargo) >= 2
  /\ \E k \in 1..Len(cargo) : cargo[k].assignedFlight = NullFlight

\* the queue of the pass goes by priority, the heavier item first within one
C11_QueueInOrder ==
  pc = "packing" =>
    \A n \in 1..(Len(queue) - 1) :
       LET a == cargo[queue[n]]
           b == cargo[queue[n + 1]]
       IN \/ PriorityOrder(a.priority) < PriorityOrder(b.priority)
          \/ /\ a.priority = b.priority
             /\ a.weight >= b.weight

\* the flights that have room for the item at the head of the queue
C11_Room ==
  {i \in 1..Len(flights) :
     flights[i].maxPayload - flights[i].currentPayload >= cargo[Head(queue)].weight}

\* flight i scores at least as much as flight j for the item at the head
C11_ScoresAtLeast(i, j) ==
  ScoreTimesCapacity(cargo[Head(queue)], flights[i]) * flights[j].maxPayload
    >= ScoreTimesCapacity(cargo[Head(queue)], flights[j]) * flights[i].maxPayload

\* one placement: the head of the queue goes to the first of the best flights
\* with room, or stays unassigned, and the rest of the queue is kept
C11_Placement ==
  (pc = "packing" /\ queue # <<>>) =>
    LET k == Head(queue)
        best == {i \in C11_Room : \A j \in C11_Room : C11_ScoresAtLeast(i, j)}
    IN /\ queue' = Tail(queue)
       /\ pc' = "packing"
       /\ \A n \in (1..Len(cargo)) \ {k} : cargo'[n] = cargo[n]
       /\ IF C11_Room = {}
            THEN /\ cargo'[k].assignedFlight = NullFlight
                 /\ flights' = flights
            ELSE LET f == CHOOSE i \in best : \A j \in best : i <= j
                 IN /\ cargo'[k].assignedFlight = flights[f].id
                    /\ flights'[f].currentPayload
                          = flights[f].currentPayload + cargo[k].weight
                    /\ \A i \in (1..Len(flights)) \ {f} : flights'[i] = flights[i]

\* one flight of capacity 5000 and the items 2000 High, 4000 Medium, 1000 Low
C11_Example ==
  /\ Len(inFlights) = 1
  /\ inFlights[1].maxPayload = 5000
  /\ Len(inCargo) = 3
  /\ <<inCargo[1].weight, inCargo[1].priority>> = <<2000, "High">>
  /\ <<inCargo[2].weight, inCargo[2].priority>> = <<4000, "Medium">>
  /\ <<inCargo[3].weight, inCargo[3].priority>> = <<1000, "Low">>

C11_ExampleResult ==
  (pc = "score" /\ C11_Example) =>
    /\ cargo[1].assignedFlight = flights[1].id
    /\ cargo[2].assignedFlight = NullFlight
    /\ cargo[3].assignedFlight = flights[1].id
    /\ flights[1].currentPayload = 3000
    /\ cargo[3].efficiency = Some(600)

\* C11: the pass takes the items by priority, the heavier first within one
\* priority; each goes to the flight of highest score among those with room
\* for it, the first such flight on a tie; an item no flight has room for stays
\* unassigned and the items after it are still placed; one flight of 5000
\* with 2000 High, 4000 Medium, 1000 Low ends with High and Low on it, Medium
\* unassigned, payload 3000 and efficiency 60.0.
C11_PriorityBestFit ==
  /\ [](C11_QueueInOrder /\ C11_ExampleResult)
  /\ [][C11_Placement]_vars

\* the example has ended: an item stayed behind and a later one was placed
C11_Witness ==
  /\ pc = "score"
  /\ C11_Example
  /\ cargo[2].assignedFlight = NullFlight
  /\ cargo[3].assignedFlight # NullFlight

\* the heuristics of a successful run have ended
HeuristicsEnded ==
  \/ pc = "score"
  \/ Returned /\ result.success

FuelFields ==
  {"cruiseAltitude", "cruiseSpeed", "fuelSavings", "fuelEfficiencyScore",
   "weatherPenalty", "suggestedTimeAdjustment", "potentialFuelSavings"}

\* optimizeForFuel has treated every flight
FuelRan ==
  \A i \in 1..Len(flights) :
     /\ flights[i].fuelEfficiencyScore # None
     /\ flights[i].weatherPenalty # None

FuelUntouched ==
  \A i \in 1..Len(flights) :
     \A field \in FuelFields : flights[i][field] = inFlights[i][field]

\* optimizeCargoDistribution has gone through every item
CargoRan ==
  /\ queue = <<>>
  /\ \A k \in 1..Len(cargo) :
        \/ cargo[k].assignedFlight = NullFlight
        \/ /\ cargo[k].efficiency # None
           /\ \E i \in 1..Len(flights) :
                 /\ flights[i].id = cargo[k].assignedFlight
                 /\ cargo[k].id \in Range(flights[i].assignedCargo)

CargoUntouched ==
  /\ cargo = inCargo
  /\ \A i \in 1..Len(flights) :
        /\ flights[i].currentPayload = inFlights[i].currentPayload
        /\ flights[i].assignedCargo = inFlights[i].assignedCargo

\* C12: with preference fuel only the fuel optimization runs and the cargo
\* items' assignedFlight and the flights' currentPayload and assignedCargo are
\* as given; with capacity only the cargo distribution runs and no fuel field
\* is written; with balanced the fuel optimization runs and then the cargo
\* distribution.
C12_PreferenceSelects ==
  LET preference == settings.optimizationPreference
  IN /\ pc = "fuel" => preference # "capacity"
     /\ pc \in {"cargo", "packing"} =>
           /\ preference \in {"capacity", "balanced"}
           /\ preference = "balanced" => FuelRan
           /\ preference = "capacity" => FuelUntouched
     /\ HeuristicsEnded =>
           /\ preference = "fuel" => FuelRan /\ CargoUntouched
           /\ preference = "capacity" => CargoRan /\ FuelUntouched
           /\ preference = "balanced" => FuelRan /\ CargoRan

\* a run with preference fuel has ended and an item still names a flight that
\* is not on the schedule, which a cargo distribution would have cleared
C12_Witness ==
  /\ pc = "done"
  /\ response.success
  /\ settings.optimizationPreference = "fuel"
  /\ \E k \in 1..Len(cargo) :
        cargo[k].assignedFlight \notin InputIds \cup {NullFlight}

\* the composite score as stated, in tenths: the capacity score is the
\* utilisation in percent whenever the flight has a currentPayload, which every
\* flight of the model has
C13_StatedScore(flight, preference) ==
  LET fuelScore == IF flight.fuelEfficiencyScore = None
                     THEN DefaultScore * 100
                     ELSE flight.fuelEfficiencyScore[1]
  IN RoundDiv(WeightFuel(preference) * fuelScore * flight.maxPayload
                + WeightCapacity(preference) * 10000 * flight.currentPayload,
              100 * flight.maxPayload)

\* C13 as stated: on success the score of every flight is
\* wFuel * fuelScore + wCapacity * capacityScore to one decimal, fuelScore the
\* fuel-efficiency score or 50 when absent, capacityScore
\* currentPayload / maxPayload * 100 or 50 when absent, the weights (0.8, 0.2)
\* for fuel, (0.2, 0.8) for capacity and (0.5, 0.5) otherwise.
C13_CompositeScore ==
  (pc = "done" /\ response.success) =>
    \A i \in 1..Len(response.flights) :
       response.flights[i].score
         = Some(C13_StatedScore(response.flights[i], settings.optimizationPreference))

\* C14 as stated: a run without a preference ends as the run with preference
\* fuel on the same input does: only the fuel optimization has run, and every
\* flight has the composite score that the weights of fuel give it.
C14_DefaultIsFuel ==
  (pc = "done" /\ response.success /\ settings.optimizationPreference = Undefined) =>
    /\ FuelRan
    /\ CargoUntouched
    /\ \A i \in 1..Len(response.flights) :
          response.flights[i].score
            = Some(CompositeScore(response.flights[i], "fuel"))

\* C15 as stated: evaluate on a name no definePredicate was given raises
\* 'Unknown predicate' and leaves the registry as it is; on a defined name it
\* returns what the evaluator last registered for the name returns on the
\* arguments.
C15_UnknownOrRegistered ==
  [][evaluated' # evaluated =>
       LET call == evaluated'[1]
       IN IF call.name \in DOMAIN predicates
            THEN /\ ~ call.threw
                 /\ call.value = Apply(predicates[call.name], call.args)
            ELSE /\ call.threw
                 /\ predicates' = predicates]_vars

\* the requested interval [time, time + duration) meets an occupied slot
C16_Overlaps(airport, time, duration) ==
  \E n \in 1..Len(airport.slots) :
     LET slot == airport.slots[n]
     IN /\ slot.isOccupied
        /\ slot.time < time + duration
        /\ time < slot.time + slot.duration

\* C16 as stated: hasAvailableSlot(airport, time, duration) is true exactly
\* when no occupied slot of the airport overlaps [time, time + duration).
C16_NoOccupiedOverlap ==
  (evaluated # None /\ evaluated[1].evaluator = "hasAvailableSlot") =>
    LET call == evaluated[1]
    IN call.value = ~ C16_Overlaps(call.args[1], call.args[2], call.args[3])

\* every constraint holds on the assignment
C17_AllHold(asg) ==
  \A k \in 1..Len(InputCsp) : IsSatisfied(inFlights, InputCsp[k], asg)

\* C17: at every point of backtrackingSearch every constraint holds on the
\* current partial assignment; a value is bound only when the assignment with
\* it satisfies every constraint whose scope has the variable, and the
\* constraints whose scope does not have it evaluate as before.
C17_PartialAssignmentConsistent ==
  /\ [](Searching => C17_AllHold(assignment))
  /\ [][(Searching /\ DOMAIN assignment' # DOMAIN assignment
           /\ DOMAIN assignment \subseteq DOMAIN assignment') =>
          \E id \in DOMAIN assignment' \ DOMAIN assignment :
             /\ DOMAIN assignment' = DOMAIN assignment \cup {id}
             /\ \A other \in DOMAIN assignment : assignment'[other] = assignment[other]
             /\ assignment'[id] \in Range(domains[id])
             /\ \A k \in 1..Len(InputCsp) :
                   IF Includes(InputCsp[k].variables, id)
                     THEN IsSatisfied(inFlights, InputCsp[k], assignment')
                     ELSE IsSatisfied(inFlights, InputCsp[k], assignment')
                            = IsSatisfied(inFlights, InputCsp[k], assignment)]_vars

\* the search holds two bound flights, one of them outside the scope of a
\* constraint, after it turned down a value of the second
C17_Witness ==
  /\ pc = "node"
  /\ Cardinality(DOMAIN assignment) >= 2
  /\ \E k \in 1..Len(InputCsp) :
        \E id \in DOMAIN assignment : ~ Includes(InputCsp[k].variables, id)
  /\ \E id \in DOMAIN assignment : assignment[id] # domains[id][1]

\* the number of values of a flight's domain that the assignment allows
C18_Remaining(id) ==
  Cardinality({n \in 1..Len(domains[id]) :
                 \A k \in 1..Len(InputCsp) :
                    Includes(InputCsp[k].variables, id)
                      => IsSatisfied(inFlights, InputCsp[k],
                                     Extend(assignment, id, domains[id][n]))})

\* the positions of the flights without a value
C18_Open == {i \in 1..Len(inFlights) : inFlights[i].id \notin DOMAIN assignment}

\* C18: the variable a node of the search selects is unassigned, no unassigned
\* variable has fewer values left than it has, and every unassigned variable
\* before it in the variables' order has more.
C18_MinimumRemainingValues ==
  [][(pc = "node" /\ pc' = "loop") =>
       \E i \in C18_Open :
          /\ stack'[Len(stack')].variable = inFlights[i].id
          /\ Len(stack') = Len(stack) + 1
          /\ \A j \in C18_Open :
                C18_Remaining(inFlights[i].id) <= C18_Remaining(inFlights[j].id)
          /\ \A j \in C18_Open :
                j < i => C18_Remaining(inFlights[i].id) < C18_Remaining(inFlights[j].id)]_vars

\* a node selected a flight that is not the first unassigned one
C18_Witness ==
  /\ pc = "loop"
  /\ \E i \in C18_Open : i < CHOOSE j \in 1..Len(inFlights) :
                                 inFlights[j].id = stack[Len(stack)].variable

\* the pairs (other unassigned flight, position in its domain) that a value of
\* a flight rules out: some constraint with both flights in its scope fails on
\* the assignment with the two bindings
C19_Conflicts(id, value) ==
  Cardinality(
    {pair \in UNION {{<<o, n>> : n \in 1..Len(domains[o])} :
                        o \in InputIds \ (DOMAIN assignment \cup {id})} :
       \E k \in 1..Len(InputCsp) :
          /\ Includes(InputCsp[k].variables, id)
          /\ Includes(InputCsp[k].variables, pair[1])
          /\ ~ IsSatisfied(inFlights, InputCsp[k],
                           Extend(Extend(assignment, id, value),
                                  pair[1], domains[pair[1]][pair[2]]))})

\* C19: the values a node goes through are the domain of its variable, each
\* value as often as before, in ascending order of the number of pairs (other
\* unassigned variable, value of its domain) the value rules out.
C19_LeastConstrainingFirst ==
  [][(pc = "node" /\ pc' = "loop") =>
       LET id == stack'[Len(stack')].variable
           before == domains[id]
           after == domains'[id]
       IN /\ Len(after) = Len(before)
          /\ \A x \in Range(before) \cup Range(after) :
                Cardinality({n \in 1..Len(after) : after[n] = x})
                  = Cardinality({n \in 1..Len(before) : before[n] = x})
          /\ \A n \in 1..(Len(after) - 1) :
                C19_Conflicts(id, after[n]) <= C19_Conflicts(id, after[n + 1])]_vars

\* a node is about to go through a domain that the ordering has rearranged
C19_Witness ==
  /\ pc = "loop"
  /\ stack[Len(stack)].index = 1
  /\ \E i \in 1..Len(inFlights) :
        /\ inFlights[i].id = stack[Len(stack)].variable
        /\ domains[inFlights[i].id] # GeneratePossibleDepartureTimes(inFlights[i])
        /\ C19_Conflicts(inFlights[i].id, domains[inFlights[i].id][1])
             < C19_Conflicts(inFlights[i].id,
                             domains[inFlights[i].id][Len(domains[inFlights[i].id])])

\* C20: a binding that leads to no solution is removed and counted: during
\* the search the bindings made less the backtracks are the bindings held;
\* when backtrackingSearch returns null the assignment is empty and the
\* backtracks are the bindings made, when it returns a solution the bindings
\* made less the backtracks are the variables; every call starts from
\* iterations = 0, backtracks = 0 and an empty assignment.
C20_BindingsUndoneAndCounted ==
  /\ [](Searching /\ calls > 0 =>
          bindings - stats.backtracks = Cardinality(DOMAIN assignment))
  /\ []((pc = "searched" /\ solution = None) =>
          /\ assignment = EmptyAssignment
          /\ stats.backtracks = bindings)
  /\ []((pc = "searched" /\ solution # None) =>
          bindings - stats.backtracks = Len(inFlights))
  /\ [][calls' # calls =>
          /\ stats' = [iterations |-> 0, backtracks |-> 0]
          /\ assignment' = EmptyAssignment]_vars

\* the second search of an engine, begun on the counters and the assignment
\* of a first one that found a solution, has returned null after bindings
C20_Witness ==
  /\ pc = "searched"
  /\ calls = 2
  /\ solution = None
  /\ bindings >= 2
  /\ Len(inFlights) >= 2

\* C21 as stated: when backtrackingSearch returns, iterations is at most
\* maxIterations + 1, and once the count has exceeded maxIterations no node is
\* visited and no binding is made or undone.
C21_CapBoundsWork ==
  /\ [](pc = "searched" =>
          stats.iterations <= settings.maxBacktrackingIterations + 1)
  /\ [][(Searching /\ stats.iterations > settings.maxBacktrackingIterations) =>
          /\ stats' = stats
          /\ assignment' = assignment]_vars

\* C22: isConsistent has no side effect: a turn of the loop that finds its
\* value inconsistent leaves the assignment, the domains, contents and order,
\* and the statistics as they were, and the call gives for an assignment and a
\* value what it gave when the variable was selected.
C22_IsConsistentPure ==
  [][(pc = "loop" /\ pc' = "loop") =>
       /\ assignment' = assignment
       /\ domains' = domains
       /\ stats' = stats
       /\ bindings' = bindings
       /\ \A k \in 1..Len(InputCsp) :
             IsSatisfied(inFlights, InputCsp[k], assignment')
               = IsSatisfied(inFlights, InputCsp[k], assignment)]_vars

\* a node has turned down a value and nothing was ever undone
C22_Witness ==
  /\ pc = "loop"
  /\ stack[Len(stack)].index > 1
  /\ stats.backtracks = 0
  /\ assignment # EmptyAssignment

\* the flights of the list that a predicate's assignment gives a time
C23_Timed(scope) ==
  {i \in 1..Len(inFlights) :
     inFlights[i].id \in Range(scope) \cap DOMAIN assignment}

\* C23: the Aircraft predicate is true exactly when the assigned flights of
\* the named aircraft, in the order of their minutes since midnight, are at
\* least 45 minutes apart pair by consecutive pair, which is when any two of
\* them are: 40 minutes apart and equal times violate it, 45 minutes apart
\* satisfy it, and 23:30 and 00:00 count as 1410 minutes apart.
C23_AircraftTurnaround ==
  (pc = "asked" /\ satisfied[1].type = "Aircraft") =>
    /\ \A n \in 1..Len(satisfied[1].variables) :
          \E i \in 1..Len(inFlights) :
             /\ inFlights[i].id = satisfied[1].variables[n]
             /\ inFlights[i].aircraft = satisfied[1].description[1].text
    /\ satisfied[1].value
         = \A i, j \in C23_Timed(satisfied[1].variables) :
              i < j => Apart(assignment[inFlights[i].id],
                             assignment[inFlights[j].id]) >= 45

\* the predicate was asked about two flights of the aircraft 40 minutes apart,
\* the later one first in the flight list, and about 23:30 and 00:00
C23_Witness ==
  /\ pc = "asked"
  /\ satisfied[1].type = "Aircraft"
  /\ \/ /\ ~ satisfied[1].value
        /\ \E i, j \in C23_Timed(satisfied[1].variables) :
              /\ i < j
              /\ assignment[inFlights[i].id] = <<8, 40>>
              /\ assignment[inFlights[j].id] = <<8, 0>>
     \/ /\ satisfied[1].value
        /\ \E i, j \in C23_Timed(satisfied[1].variables) :
              /\ i < j
              /\ assignment[inFlights[i].id] = <<23, 30>>
              /\ assignment[inFlights[j].id] = <<0, 0>>

\* the operations of a solution at an airport: the departures of the flights
\* that leave it and the arrivals, FlightHours later, of those that reach it
C24_Operations(sol, airport) ==
  {<<i, "departure", sol[inFlights[i].id]>> :
      i \in {n \in 1..Len(inFlights) : inFlights[n].origin = airport}}
  \cup
  {<<i, "arrival", AddHoursToTime(sol[inFlights[i].id], FlightHours)>> :
      i \in {n \in 1..Len(inFlights) : inFlights[n].destination = airport}}

C24_Airports ==
  {inFlights[i].origin : i \in 1..Len(inFlights)}
    \cup {inFlights[i].destination : i \in 1..Len(inFlights)}

\* C24: the global separation constraint is compiled whatever the declared
\* constraints are, with every flight in its scope, and in every solution the
\* search returns any two operations at one airport, a departure at the
\* assigned time or an arrival 3 hours later modulo 24 hours, are at least 15
\* minutes of the day apart.
C24_GlobalSeparation ==
  /\ pc # "start" =>
        /\ Len(InputCsp) = Len(constraints) + 1
        /\ InputCsp[Len(InputCsp)].type = "Global"
        /\ InputCsp[Len(InputCsp)].variables = FlightIds(inFlights)
  /\ (pc = "searched" /\ solution # None) =>
        \A airport \in C24_Airports :
           \A a, b \in C24_Operations(solution[1], airport) :
              a # b => Apart(a[3], b[3]) >= 15

\* a solution in which a flight was kept off the time of another operation at
\* one of its airports
C24_Witness ==
  /\ pc = "searched"
  /\ solution # None
  /\ \E airport \in C24_Airports :
        Cardinality(C24_Operations(solution[1], airport)) >= 3
  /\ \E i \in 1..Len(inFlights) :
        LET id == inFlights[i].id
        IN \E n \in 1..Len(domains[id]) :
              /\ domains[id][n] # solution[1][id]
              /\ ~ MinimumTurnaroundSatisfied(inFlights,
                                             Extend(solution[1], id, domains[id][n]))

\* the time lies in the window, ends included, the window taken across
\* midnight when it ends before it starts
C25_Inside(time, window) ==
  LET t == MinutesOfDay(time)
      from == MinutesOfDay(window[1])
      to == MinutesOfDay(window[2])
  IN IF to < from THEN t \in (from..(24 * 60 - 1)) \cup (0..to)
     ELSE t \in from..to

\* the window of an Airport description, none when it has none
C25_Window(description) ==
  LET windows == {n \in 1..Len(description) : description[n].window # None}
  IN IF windows = {} THEN None
     ELSE description[CHOOSE n \in windows : \A m \in windows : n <= m].window

\* C25: the Airport predicate is true exactly when at most 2 of the assigned
\* flights that leave or reach the named airport lie in the window of the
\* description, and always when the description has no window; the window has
\* its two ends and goes across midnight when it ends before it starts.
C25_AirportWindow ==
  (pc = "asked" /\ satisfied[1].type = "Airport") =>
    LET window == C25_Window(satisfied[1].description)
        airport == satisfied[1].description[1].text
        touching == {i \in 1..Len(inFlights) :
                       /\ inFlights[i].id \in DOMAIN assignment
                       /\ \/ inFlights[i].origin = airport
                          \/ inFlights[i].destination = airport}
    IN satisfied[1].value
         = \/ window = None
           \/ Cardinality({i \in touching :
                             C25_Inside(assignment[inFlights[i].id], window)}) <= 2

\* the predicate with the window 22:00-02:00 was asked about three flights at
\* 22:00, 23:30 and 02:00 and was false, or about 23:30, 01:00 and 12:00 and
\* was true
C25_Witness ==
  /\ pc = "asked"
  /\ satisfied[1].type = "Airport"
  /\ C25_Window(satisfied[1].description) = << <<22, 0>>, <<2, 0>> >>
  /\ Cardinality(DOMAIN assignment) = 3
  /\ \/ /\ ~ satisfied[1].value
        /\ {assignment[id] : id \in DOMAIN assignment}
              = {<<22, 0>>, <<23, 30>>, <<2, 0>>}
     \/ /\ satisfied[1].value
        /\ {assignment[id] : id \in DOMAIN assignment}
              = {<<23, 30>>, <<1, 0>>, <<12, 0>>}

\* assignments of an early and a late time to some of the flights
C26_Assignments ==
  UNION {[S -> {TimePool[4], TimePool[9]}] : S \in SUBSET InputIds}

\* the flights of the crew the description names
C26_Crew(description) ==
  {i \in 1..Len(inFlights) : inFlights[i].crew = description[2].text}

\* C26: the Crew predicate is true exactly when 3 hours times the number of
\* assigned flights of the named crew is at most 8 hours, that is when at most
\* 2 of them are assigned, whatever their times; so the search returns no
\* solution when a Crew constraint names a crew of 3 or more flights.
C26_CrewDuty ==
  \A k \in 1..Len(InputCsp) :
     InputCsp[k].type = "Crew" =>
       /\ pc = "start" =>
             \A asg \in C26_Assignments :
                LET assigned == {i \in C26_Crew(InputCsp[k].description) :
                                   inFlights[i].id \in DOMAIN asg}
                IN /\ IsSatisfied(inFlights, InputCsp[k], asg)
                        = (3 * Cardinality(assigned) <= 8)
                   /\ (3 * Cardinality(assigned) <= 8) = (Cardinality(assigned) <= 2)
       /\ (pc = "searched" /\ Cardinality(C26_Crew(InputCsp[k].description)) >= 3)
             => solution = None

\* the search has gone through every value of a crew of three flights and
\* returned null within its budget
C26_Witness ==
  /\ pc = "searched"
  /\ solution = None
  /\ stats.iterations <= settings.maxBacktrackingIterations
  /\ \E k \in 1..Len(InputCsp) :
        /\ InputCsp[k].type = "Crew"
        /\ Cardinality(C26_Crew(InputCsp[k].description)) >= 3


\* C27 as stated: every response of SchedulerService.optimizeSchedule with
\* success = false carries the flights and the cargo exactly as they were
\* given, the failure by an exception of the heuristics included.
C27_FailureReturnsInput ==
  (pc = "done" /\ ~ response.success)
    => /\ response.flights = inFlights
       /\ response.cargo = inCargo

C29_SelectsUnbound ==
  (pc = "node" /\ ~ IsComplete(assignment, Variables))
    => LET variable == SelectUnassignedVariable(flights, DeclaredCsp, domains,
                                                assignment, Variables)
       IN /\ variable # NoVariable
          /\ ~ Assigned(assignment, variable)

\* C30 as stated: after optimizeForFuel has treated every flight, a second
\* optimizeForFuel on the same flights records for every flight the
\* fuelEfficiencyScore the first one recorded.
C30_FuelScoreIdempotent ==
  FuelRan =>
    \A i \in 1..Len(flights) :
       FuelTreated(flights, Len(flights))[i].fuelEfficiencyScore
         = flights[i].fuelEfficiencyScore

====
